---- MODULE Spec2Model ----
(***************************************************************************)
(* Model of bot.py: the Telegram handler handle_player_id and the scrape   *)
(* workflow fetch_player_name (Steel session + Playwright browser).        *)
(* One message is handled at a time (Dispatcher workers=0), statement by   *)
(* statement; every call to an external service may succeed or raise.      *)
(***************************************************************************)
EXTENDS Naturals, Sequences, FiniteSets

\* ---- bounds ----
MaxLen == 3        \* longest inbound message text, in characters
MaxMsgs == 2       \* messages handled in one run

\* ---- inputs ----
Digits == {"1"}
Whitespace == {" "}
Chars == Digits \cup Whitespace \cup {"a"}
Texts == UNION {[1..n -> Chars] : n \in 0..MaxLen}
\* text the first result element may show (text_content()), possibly empty
Names == {"", "PlayerX", "Y"}

\* ---- Python values of player_name ----
None == <<"None">>
Str(s) == <<"str", s>>
RetVals == {None} \cup {Str(n) : n \in Names}
Truthy(v) == v # None /\ v[2] # ""

\* ---- str.strip() and str.isdigit() ----
RECURSIVE lstrip(_)
lstrip(s) == IF s # <<>> /\ Head(s) \in Whitespace THEN lstrip(Tail(s)) ELSE s

RECURSIVE rstrip(_)
rstrip(s) ==
  IF s # <<>> /\ s[Len(s)] \in Whitespace THEN rstrip(SubSeq(s, 1, Len(s) - 1)) ELSE s

strip(s) == rstrip(lstrip(s))

isdigit(s) == Len(s) > 0 /\ \A i \in 1..Len(s) : s[i] \in Digits

\* ---- chat messages (the formatted strings of handle_player_id) ----
Msg(kind, id, name) == [kind |-> kind, player_id |-> id, player_name |-> name]
InvalidMsg == Msg("Invalid player ID. Please send only numbers.", <<>>, "")
ProcessingMsg(id) == Msg("Fetching player name for ID", id, "")
SuccessMsg(id, name) == Msg("Player Found!", id, name)
NotFoundMsg(id) == Msg("Could not find player with ID", id, "")
ErrorMsg == Msg("An error occurred while fetching player information.", <<>>, "")

VARIABLES
  pc,             \* the statement the single worker is at
  msgs,           \* updates dispatched so far
  text,           \* update.message.text
  player_id,      \* handle_player_id: player_id
  replies,        \* messages sent with update.message.reply_text
  edits,          \* processing_msg.edit_text calls: [msg, ok]
  h_player_name,  \* handle_player_id: player_name (the value fetch returned)
  bound,          \* fetch_player_name: the locals that are bound
  session,        \* fetch_player_name: session.id (0: unbound)
  leased,         \* provider side: sessions created and not released
  name_element,   \* the text of the first result element, once it appeared
  f_player_name,  \* fetch_player_name: player_name
  retval,         \* fetch_player_name: the value the pending return carries
  trace           \* external calls of this invocation: [step, phase, res]

vars == <<pc, msgs, text, player_id, replies, edits, h_player_name, bound,
          session, leased, name_element, f_player_name, retval, trace>>

hvars == <<msgs, text, player_id, replies, edits, h_player_name>>

Log(step, phase, res) == Append(trace, [step |-> step, phase |-> phase, res |-> res])

Calls(step) == Cardinality({i \in DOMAIN trace : trace[i].step = step})

\* where an exception raised in the try block lands
Handler(res) == IF res = "timeout" THEN "except_PlaywrightTimeout" ELSE "except_Exception"

SteelResults == {"ok", "error"}
PlaywrightResults == {"ok", "timeout", "error"}

Init ==
  /\ pc = "idle"
  /\ msgs = 0
  /\ text = <<>>
  /\ player_id = <<>>
  /\ replies = <<>>
  /\ edits = <<>>
  /\ h_player_name = None
  /\ bound = {}
  /\ session = 0
  /\ leased = {}
  /\ name_element = ""
  /\ f_player_name = None
  /\ retval = None
  /\ trace = <<>>

\* ---- handle_player_id ----

\* webhook -> dispatcher.process_update -> handle_player_id, line 117
Receive ==
  /\ pc = "idle"
  /\ msgs < MaxMsgs
  /\ \E t \in Texts :
       /\ text' = t
       /\ player_id' = strip(t)
  /\ msgs' = msgs + 1
  /\ replies' = <<>>
  /\ edits' = <<>>
  /\ h_player_name' = None
  /\ bound' = {}
  /\ session' = 0
  /\ name_element' = ""
  /\ f_player_name' = None
  /\ retval' = None
  /\ trace' = <<>>
  /\ pc' = "validate"
  /\ UNCHANGED leased

\* lines 120-125: not isdigit -> reply with the invalid-ID message, return
ReplyInvalid ==
  /\ pc = "validate"
  /\ ~isdigit(player_id)
  /\ \E ok \in BOOLEAN :
       replies' = IF ok THEN Append(replies, InvalidMsg) ELSE replies
  /\ pc' = "idle"
  /\ UNCHANGED <<msgs, text, player_id, edits, h_player_name, bound, session,
                 leased, name_element, f_player_name, retval, trace>>

\* mutant: the check accepts any text that has a digit in it
ReplyProcessing_AnyDigit ==
  /\ pc = "validate"
  /\ \E i \in DOMAIN player_id : player_id[i] \in Digits
  /\ \E ok \in BOOLEAN :
       /\ replies' = IF ok THEN Append(replies, ProcessingMsg(player_id)) ELSE replies
       /\ pc' = IF ok THEN "Steel" ELSE "idle"
  /\ UNCHANGED <<msgs, text, player_id, edits, h_player_name, bound, session,
                 leased, name_element, f_player_name, retval, trace>>

\* lines 128-131: the processing placeholder; a failed send raises out of the handler
ReplyProcessing ==
  /\ pc = "validate"
  /\ isdigit(player_id)
  /\ \E ok \in BOOLEAN :
       /\ replies' = IF ok THEN Append(replies, ProcessingMsg(player_id)) ELSE replies
       /\ pc' = IF ok THEN "Steel" ELSE "idle"
  /\ UNCHANGED <<msgs, text, player_id, edits, h_player_name, bound, session,
                 leased, name_element, f_player_name, retval, trace>>

\* lines 137-143
EditSuccess ==
  /\ pc = "result"
  /\ Truthy(h_player_name)
  /\ \E ok \in BOOLEAN :
       /\ edits' = Append(edits, [msg |-> SuccessMsg(player_id, h_player_name[2]), ok |-> ok])
       /\ pc' = IF ok THEN "idle" ELSE "handler_except"
  /\ UNCHANGED <<msgs, text, player_id, replies, h_player_name, bound, session,
                 leased, name_element, f_player_name, retval, trace>>

\* lines 144-149
EditNotFound ==
  /\ pc = "result"
  /\ ~Truthy(h_player_name)
  /\ \E ok \in BOOLEAN :
       /\ edits' = Append(edits, [msg |-> NotFoundMsg(player_id), ok |-> ok])
       /\ pc' = IF ok THEN "idle" ELSE "handler_except"
  /\ UNCHANGED <<msgs, text, player_id, replies, h_player_name, bound, session,
                 leased, name_element, f_player_name, retval, trace>>

\* lines 150-155
EditError ==
  /\ pc = "handler_except"
  /\ \E ok \in BOOLEAN :
       edits' = Append(edits, [msg |-> ErrorMsg, ok |-> ok])
  /\ pc' = "idle"
  /\ UNCHANGED <<msgs, text, player_id, replies, h_player_name, bound, session,
                 leased, name_element, f_player_name, retval, trace>>

\* ---- fetch_player_name: the try block ----

\* line 34
SteelClient ==
  /\ pc = "Steel"
  /\ \E res \in SteelResults :
       /\ trace' = Log("Steel", "try", res)
       /\ bound' = IF res = "ok" THEN bound \cup {"client"} ELSE bound
       /\ pc' = IF res = "ok" THEN "sessions.create" ELSE Handler(res)
  /\ UNCHANGED <<hvars, session, leased, name_element, f_player_name, retval>>

\* line 37
SessionsCreate ==
  /\ pc = "sessions.create"
  /\ \E res \in SteelResults :
       /\ trace' = Log("sessions.create", "try", res)
       /\ bound' = IF res = "ok" THEN bound \cup {"session"} ELSE bound
       /\ session' = IF res = "ok" THEN msgs ELSE session
       /\ leased' = IF res = "ok" THEN leased \cup {msgs} ELSE leased
       /\ pc' = IF res = "ok" THEN "sync_playwright.start" ELSE Handler(res)
  /\ UNCHANGED <<hvars, name_element, f_player_name, retval>>

\* line 42
PlaywrightStart ==
  /\ pc = "sync_playwright.start"
  /\ \E res \in SteelResults :
       /\ trace' = Log("sync_playwright.start", "try", res)
       /\ bound' = IF res = "ok" THEN bound \cup {"playwright"} ELSE bound
       /\ pc' = IF res = "ok" THEN "connect_over_cdp" ELSE Handler(res)
  /\ UNCHANGED <<hvars, session, leased, name_element, f_player_name, retval>>

\* lines 43-45
ConnectOverCdp ==
  /\ pc = "connect_over_cdp"
  /\ \E res \in PlaywrightResults :
       /\ trace' = Log("connect_over_cdp", "try", res)
       /\ bound' = IF res = "ok" THEN bound \cup {"browser"} ELSE bound
       /\ pc' = IF res = "ok" THEN "page" ELSE Handler(res)
  /\ UNCHANGED <<hvars, session, leased, name_element, f_player_name, retval>>

\* a statement of the try block that only succeeds or raises
TryStep(here, next) ==
  /\ pc = here
  /\ \E res \in PlaywrightResults :
       /\ trace' = Log(here, "try", res)
       /\ pc' = IF res = "ok" THEN next ELSE Handler(res)
  /\ UNCHANGED <<hvars, bound, session, leased, name_element, f_player_name, retval>>

\* lines 48-49
GetPage == TryStep("page", "goto")

\* mutant: a failed navigation is tried a second time
Goto_Retry ==
  /\ pc = "goto"
  /\ \E res \in PlaywrightResults :
       /\ trace' = Log("goto", "try", res)
       /\ pc' = IF res = "ok" THEN "fill"
                ELSE IF Calls("goto") = 0 THEN "goto" ELSE Handler(res)
  /\ UNCHANGED <<hvars, bound, session, leased, name_element, f_player_name, retval>>

\* line 53
Goto == TryStep("goto", "fill")

\* lines 57-58
Fill == TryStep("fill", "click")

\* lines 62-63
Click == TryStep("click", "wait_for")

\* lines 67-68: the first matching element appears within 10 s, or the wait raises
WaitFor ==
  /\ pc = "wait_for"
  /\ \E res \in PlaywrightResults :
       /\ trace' = Log("wait_for", "try", res)
       /\ IF res = "ok"
            THEN \E n \in Names : name_element' = n
            ELSE name_element' = name_element
       /\ pc' = IF res = "ok" THEN "text_content" ELSE Handler(res)
  /\ UNCHANGED <<hvars, bound, session, leased, f_player_name, retval>>

\* line 70
TextContent ==
  /\ pc = "text_content"
  /\ \E res \in PlaywrightResults :
       /\ trace' = Log("text_content", "try", res)
       /\ f_player_name' = IF res = "ok" THEN Str(name_element) ELSE f_player_name
       /\ pc' = IF res = "ok" THEN "browser.close" ELSE Handler(res)
  /\ UNCHANGED <<hvars, bound, session, leased, name_element, retval>>

\* line 74
BrowserClose == TryStep("browser.close", "playwright.stop")

\* line 75
PlaywrightStop ==
  /\ pc = "playwright.stop"
  /\ \E res \in SteelResults :
       /\ trace' = Log("playwright.stop", "try", res)
       /\ pc' = IF res = "ok" THEN "sessions.release" ELSE Handler(res)
  /\ UNCHANGED <<hvars, bound, session, leased, name_element, f_player_name, retval>>

\* line 76
SessionsRelease ==
  /\ pc = "sessions.release"
  /\ \E res \in SteelResults :
       /\ trace' = Log("sessions.release", "try", res)
       /\ leased' = IF res = "ok" THEN leased \ {session} ELSE leased
       /\ pc' = IF res = "ok" THEN "return" ELSE Handler(res)
  /\ UNCHANGED <<hvars, bound, session, name_element, f_player_name, retval>>

\* mutant: the success path falls off the end of the function
ReturnPlayerName_NoValue ==
  /\ pc = "return"
  /\ retval' = None
  /\ pc' = "finally"
  /\ UNCHANGED <<hvars, bound, session, leased, name_element, f_player_name, trace>>

\* line 79: return player_name; the finally block runs before the call returns
ReturnPlayerName ==
  /\ pc = "return"
  /\ retval' = f_player_name
  /\ pc' = "finally"
  /\ UNCHANGED <<hvars, bound, session, leased, name_element, f_player_name, trace>>

\* lines 81-83
ExceptPlaywrightTimeout ==
  /\ pc = "except_PlaywrightTimeout"
  /\ retval' = None
  /\ pc' = "finally"
  /\ UNCHANGED <<hvars, bound, session, leased, name_element, f_player_name, trace>>

\* mutant: the handler returns an empty name instead of None
ExceptException_EmptyName ==
  /\ pc = "except_Exception"
  /\ retval' = Str("")
  /\ pc' = "finally"
  /\ UNCHANGED <<hvars, bound, session, leased, name_element, f_player_name, trace>>

\* lines 84-86
ExceptException ==
  /\ pc = "except_Exception"
  /\ retval' = None
  /\ pc' = "finally"
  /\ UNCHANGED <<hvars, bound, session, leased, name_element, f_player_name, trace>>

\* ---- fetch_player_name: the finally block, lines 87-93 ----

\* mutant: a failure of the repeated close is handled like a failure of the
\* try block and replaces the pending return value
FinallyBrowserClose_Unguarded ==
  /\ pc = "finally"
  /\ IF "browser" \notin bound
       THEN /\ trace' = Log("UnboundLocalError", "finally", "error")
            /\ pc' = "exit"
            /\ retval' = retval
       ELSE \E res \in PlaywrightResults :
              /\ trace' = Log("browser.close", "finally", res)
              /\ pc' = IF res = "ok" THEN "finally_stop" ELSE "exit"
              /\ retval' = IF res = "ok" THEN retval ELSE None
  /\ UNCHANGED <<hvars, bound, session, leased, name_element, f_player_name>>

\* mutant: cleanup skips an unbound browser and goes on to release the session
FinallyBrowserClose_SkipUnbound ==
  /\ pc = "finally"
  /\ IF "browser" \notin bound
       THEN /\ trace' = trace
            /\ pc' = "finally_release"
       ELSE \E res \in PlaywrightResults :
              /\ trace' = Log("browser.close", "finally", res)
              /\ pc' = IF res = "ok" THEN "finally_stop" ELSE "exit"
  /\ UNCHANGED <<hvars, bound, session, leased, name_element, f_player_name, retval>>

\* line 89: browser.close(); an unbound browser raises UnboundLocalError, and
\* the bare except of lines 92-93 swallows whatever is raised
FinallyBrowserClose ==
  /\ pc = "finally"
  /\ IF "browser" \notin bound
       THEN /\ trace' = Log("UnboundLocalError", "finally", "error")
            /\ pc' = "exit"
       ELSE \E res \in PlaywrightResults :
              /\ trace' = Log("browser.close", "finally", res)
              /\ pc' = IF res = "ok" THEN "finally_stop" ELSE "exit"
  /\ UNCHANGED <<hvars, bound, session, leased, name_element, f_player_name, retval>>

\* line 90
FinallyPlaywrightStop ==
  /\ pc = "finally_stop"
  /\ \E res \in SteelResults :
       /\ trace' = Log("playwright.stop", "finally", res)
       /\ pc' = IF res = "ok" THEN "finally_release" ELSE "exit"
  /\ UNCHANGED <<hvars, bound, session, leased, name_element, f_player_name, retval>>

\* line 91
FinallySessionsRelease ==
  /\ pc = "finally_release"
  /\ \E res \in SteelResults :
       /\ trace' = Log("sessions.release", "finally", res)
       /\ leased' = IF res = "ok" THEN leased \ {session} ELSE leased
  /\ pc' = "exit"
  /\ UNCHANGED <<hvars, bound, session, name_element, f_player_name, retval>>

\* the call returns to line 135: player_name = fetch_player_name(player_id)
Exit ==
  /\ pc = "exit"
  /\ h_player_name' = retval
  /\ pc' = "result"
  /\ UNCHANGED <<msgs, text, player_id, replies, edits, bound, session, leased,
                 name_element, f_player_name, retval, trace>>

Next ==
  \/ Receive
  \/ ReplyInvalid
  \/ ReplyProcessing
  \/ EditSuccess
  \/ EditNotFound
  \/ EditError
  \/ SteelClient
  \/ SessionsCreate
  \/ PlaywrightStart
  \/ ConnectOverCdp
  \/ GetPage
  \/ Goto
  \/ Fill
  \/ Click
  \/ WaitFor
  \/ TextContent
  \/ BrowserClose
  \/ PlaywrightStop
  \/ SessionsRelease
  \/ ReturnPlayerName
  \/ ExceptPlaywrightTimeout
  \/ ExceptException
  \/ FinallyBrowserClose
  \/ FinallyPlaywrightStop
  \/ FinallySessionsRelease
  \/ Exit

Spec == Init /\ [][Next]_vars

TypeOK ==
  /\ msgs \in 0..MaxMsgs
  /\ text \in Texts
  /\ h_player_name \in RetVals
  /\ retval \in RetVals
  /\ bound \subseteq {"client", "session", "playwright", "browser"}
  /\ leased \subseteq 1..MaxMsgs

\* ---- vocabulary of the claims ----

InFetch == pc \notin {"idle", "validate", "result", "handler_except"}
\* fetch_player_name was called and has returned to handle_player_id
Returned == trace # <<>> /\ ~InFetch
\* handle_player_id has ended for the current message
Done == pc = "idle" /\ msgs > 0
\* client.sessions.create() returned a session
Acquired == \E i \in DOMAIN trace : trace[i].step = "sessions.create" /\ trace[i].res = "ok"
\* a statement of the try block raised
TryFailed == \E i \in DOMAIN trace : trace[i].phase = "try" /\ trace[i].res # "ok"
\* the cleanup of lines 74-76 ran to its end
NormalCleanupDone ==
  \E i \in DOMAIN trace :
    trace[i] = [step |-> "sessions.release", phase |-> "try", res |-> "ok"]
AllEditsOk == \A i \in DOMAIN edits : edits[i].ok
\* the session was created and no release call was issued for it
Held == Acquired /\ Calls("sessions.release") = 0

\* C1: whenever fetch_player_name acquired a session, sessions.release has been
\* called for it at least once by the time the call returns, on every exit path.
C1_ReleasedOnEveryExit ==
  (Returned /\ Acquired) => Calls("sessions.release") >= 1

\* C2: whenever fetch_player_name acquired a session, exactly one
\* sessions.release call was issued for it during the invocation.
C2_ReleasedExactlyOnce ==
  (Returned /\ Acquired) => Calls("sessions.release") = 1

\* C3 as stated: a message text that contains a non-digit character (or is
\* empty) never invokes fetch_player_name, never leases a session, and the only
\* reply is the invalid-ID message.
C3_NonDigitTextNeverFetched ==
  (msgs > 0 /\ (text = <<>> \/ \E i \in DOMAIN text : text[i] \notin Digits))
    => /\ trace = <<>> /\ ~InFetch
       /\ session = 0
       /\ edits = <<>>
       /\ replies \in {<<>>, <<InvalidMsg>>}

\* C3 amended: a message text that, once leading and trailing whitespace is
\* removed, is empty or contains a non-digit character never invokes
\* fetch_player_name, never leases a session, and the only reply is the
\* invalid-ID message.
C3_InvalidIdNeverFetched ==
  (msgs > 0 /\ (strip(text) = <<>> \/ \E i \in DOMAIN strip(text) : strip(text)[i] \notin Digits))
    => /\ trace = <<>> /\ ~InFetch
       /\ session = 0
       /\ edits = <<>>
       /\ replies \in {<<>>, <<InvalidMsg>>}

C3_Witness ==
  /\ Done
  /\ text = <<"a", "1", "1">>
  /\ replies = <<InvalidMsg>>

\* C4 as stated: every failure in the try block makes fetch_player_name return
\* None, and handle_player_id then edits the placeholder to the could-not-find
\* message and never to another message.
C4_FailureGivesNotFoundMessage ==
  (Returned /\ TryFailed)
    => /\ h_player_name = None
       /\ \A i \in DOMAIN edits : edits[i].msg = NotFoundMsg(player_id)
       /\ Done => edits = <<[msg |-> NotFoundMsg(player_id), ok |-> TRUE]>>

\* C4 amended: every failure in the try block makes fetch_player_name return
\* None, and the edit handle_player_id then makes is the could-not-find message;
\* provided that edit call does not fail it is the only edit.
C4_FailureGivesNotFoundUnlessEditFails ==
  (Returned /\ TryFailed)
    => /\ h_player_name = None
       /\ edits # <<>> => edits[1].msg = NotFoundMsg(player_id)
       /\ (Done /\ AllEditsOk) => edits = <<[msg |-> NotFoundMsg(player_id), ok |-> TRUE]>>

C4_Witness ==
  /\ Done
  /\ \E i \in DOMAIN trace : trace[i] = [step |-> "wait_for", phase |-> "try", res |-> "timeout"]
  /\ edits = <<[msg |-> NotFoundMsg(player_id), ok |-> TRUE]>>

\* C5 as stated: for an all-digit identifier and any text N of the first result
\* element, when no step fails fetch_player_name returns N and the final reply
\* is the success message with the identifier and N.
C5_FoundNameIsReported ==
  (Done /\ Returned /\ ~TryFailed /\ AllEditsOk)
    => /\ h_player_name = Str(name_element)
       /\ edits = <<[msg |-> SuccessMsg(strip(text), name_element), ok |-> TRUE]>>

\* C5 amended: for an all-digit identifier and any non-empty text N of the
\* first result element, when no workflow step, cleanup call of lines 74-76 or
\* chat call fails, fetch_player_name returns N and the final reply is the
\* success message with the identifier and N.
C5_NonEmptyNameIsReported ==
  (Done /\ Returned /\ ~TryFailed /\ AllEditsOk /\ name_element # "")
    => /\ h_player_name = Str(name_element)
       /\ edits = <<[msg |-> SuccessMsg(strip(text), name_element), ok |-> TRUE]>>

C5_Witness ==
  /\ Done
  /\ ~TryFailed
  /\ text = <<" ", "1", "1">>
  /\ h_player_name = Str("PlayerX")
  /\ edits = <<[msg |-> SuccessMsg(<<"1", "1">>, "PlayerX"), ok |-> TRUE]>>

\* the parts of C6 that do not count sessions.create
NoRetry ==
  /\ \A s \in {"Steel", "sync_playwright.start", "connect_over_cdp", "page", "goto",
               "fill", "click", "wait_for", "text_content"} : Calls(s) <= 1
  /\ \A i, j \in DOMAIN trace :
       (i < j /\ trace[i].phase = "try" /\ trace[i].res # "ok") => trace[j].phase = "finally"
  /\ Returned => (h_player_name = None \/ \E n \in Names : h_player_name = Str(n))

\* C6 as stated: nothing is retried; sessions.create is attempted exactly once
\* per invocation, the other steps at most once, no step of the try block runs
\* after the first failing one, and the call ends with a result or None.
C6_CreateExactlyOnceNoRetry ==
  /\ NoRetry
  /\ Returned => Calls("sessions.create") = 1

\* C6 amended: nothing is retried; sessions.create is attempted at most once
\* per invocation, and exactly once when the Steel client was constructed; the
\* other steps run at most once, no step of the try block runs after the first
\* failing one, and the call ends with a result or None.
C6_CreateAtMostOnceNoRetry ==
  /\ NoRetry
  /\ Calls("sessions.create") <= 1
  /\ (Returned /\ "client" \in bound) => Calls("sessions.create") = 1

C6_Witness ==
  /\ Returned
  /\ Calls("sessions.create") = 1
  /\ \E i \in DOMAIN trace : trace[i] = [step |-> "goto", phase |-> "try", res |-> "error"]

\* C7: when the finally block repeats the cleanup after lines 74-76 completed,
\* a failure of a repeated call does not change what the invocation returns:
\* it returns the extracted player_name, as when the repeated cleanup succeeds.
C7_SecondCleanupKeepsResult ==
  (Returned /\ NormalCleanupDone)
    => /\ h_player_name = f_player_name
       /\ h_player_name = Str(name_element)

C7_Witness ==
  /\ Returned
  /\ NormalCleanupDone
  /\ \E i \in DOMAIN trace : trace[i].phase = "finally" /\ trace[i].res # "ok"
  /\ h_player_name = Str("PlayerX")

\* C8: fetch_player_name never returns an empty string.
C8_NeverEmptyName ==
  Returned => h_player_name # Str("")

\* C9: when the Steel constructor or sessions.create raises, cleanup issues no
\* release, close or stop call, the UnboundLocalError of the finally block is
\* swallowed, and the invocation returns None.
C9_NoCleanupCallsWithoutSession ==
  (Returned /\ ~Acquired)
    => /\ Calls("sessions.release") = 0
       /\ Calls("browser.close") = 0
       /\ Calls("playwright.stop") = 0
       /\ trace[Len(trace)] = [step |-> "UnboundLocalError", phase |-> "finally", res |-> "error"]
       /\ h_player_name = None

C9_Witness ==
  /\ Returned
  /\ \E i \in DOMAIN trace : trace[i] = [step |-> "sessions.create", phase |-> "try", res |-> "error"]
  /\ h_player_name = None

\* C10: the processing placeholder is sent before a session is acquired; the
\* placeholder is edited only after fetch_player_name returned and never while
\* the session is still held; when the edit call does not fail there is exactly
\* one edit, the success text iff the returned name is non-empty, else the
\* could-not-find text.
C10_PlaceholderThenOneEditAfterRelease ==
  /\ (InFetch \/ trace # <<>>) => replies = <<ProcessingMsg(player_id)>>
  /\ edits # <<>> => (Returned /\ ~Held)
  /\ (Done /\ Returned /\ AllEditsOk)
       => /\ Len(edits) = 1
          /\ edits[1].msg = IF Truthy(h_player_name)
                              THEN SuccessMsg(player_id, h_player_name[2])
                              ELSE NotFoundMsg(player_id)
====
